---- MODULE Spec2Model ----
(***************************************************************************)
(* Model of the session server of misterman196/game (server/server.js):    *)
(* the room registry `rooms`, the connection registry `players`, the       *)
(* socket.io handlers registered in io.on('connection') and the countdown  *)
(* timer of startGame.                                                     *)
(*                                                                         *)
(* Node runs the handlers one at a time, so every handler and every timer  *)
(* callback is one atomic action.  A JavaScript Map keeps insertion order, *)
(* so the registry and each room's player map are sequences.  Room objects *)
(* live in `roomObj` indexed by their code: an object deleted from the     *)
(* registry is still referenced by the closure of a running timer.         *)
(* generateRoomCode and generatePlayerId are modelled as returning values  *)
(* never returned before (the next integer); a client may send any room    *)
(* code and any player id, including id 0 that the server never issues.    *)
(* Of a player, the fields x, y, health, isDead and sword are kept; name,  *)
(* velocity, shield and swordHitbox are payload that no handler reads.     *)
(* The playerUpdate handler is a pure relay and has no action.             *)
(*                                                                         *)
(* Two specifications share the actions.  Spec explores the room and       *)
(* connection lifecycle (lobby messages, joinGame, playerDied, disconnect, *)
(* countdown); SpecCombat explores the gameplay messages in one room.      *)
(* Both stop after MaxMsgs client messages; timer ticks are not counted.   *)
(* SpecFair is Spec with weak fairness of the timer ticks.                 *)
(***************************************************************************)
EXTENDS Integers, Sequences, FiniteSets, TLC

\* ---------------------------------------------------------------- bounds
MaxConns == 2
MaxRooms == 2
MaxIds == 3
MaxTimers == 2
MaxMsgs == 5

\* ------------------------------------------------------ program constants
FullHealth == 100
Damage == 15
CountdownStart == 3
SpawnLeftX == 250
SpawnRightX == 750
SpawnY == 300

Conns == 1..MaxConns
Codes == 1..MaxRooms
\* values a client reports in a playerState message
ClientHealth == {-5, 10, 115}
ClientPos == {<<5, 5>>}

VARIABLES
    conn,       \* socket id -> "new" | "open" | "closed"
    rooms,      \* the registry: codes of the registered rooms, insertion order
    roomObj,    \* code -> room object [players, gameStarted]
    players,    \* socket id -> binding [playerId, roomCode] (0,0 when absent)
    joined,     \* socket id -> set of socket.io rooms the socket has joined
    timers,     \* running countdown intervals, in creation order
    nextCode,   \* next value of generateRoomCode
    nextId,     \* next value of generatePlayerId
    gameOverSent, \* code -> a gameOver was emitted since the last startGame
    msgs,       \* number of client messages processed so far
    last,       \* the message or tick processed by the last step
    out         \* the events emitted by the last step, in order

vars == <<conn, rooms, roomObj, players, joined, timers, nextCode, nextId,
          gameOverSent, msgs, last, out>>

\* ------------------------------------------------------------- helpers
NoBinding == [playerId |-> 0, roomCode |-> 0]

EmptyRoom == [players |-> <<>>, gameStarted |-> FALSE]

\* NewPlayer created already hurt
NewPlayerHurt(id, s) ==
    [id |-> id, socketId |-> s, pos |-> <<0, 0>>, health |-> FullHealth - Damage,
     isDead |-> FALSE, sword |-> "unset"]

NewPlayer(id, s) ==
    [id |-> id, socketId |-> s, pos |-> <<0, 0>>, health |-> FullHealth,
     isDead |-> FALSE, sword |-> "unset"]

Range(f) == {f[i] : i \in DOMAIN f}

\* rooms.get(code) is defined
HasRoom(code) == code \in Range(rooms)

\* room.players.has(id) / index of the entry in enumeration order
Ids(room) == {room.players[i].id : i \in DOMAIN room.players}

HasPlayer(room, id) == id \in Ids(room)

IndexOf(room, id) == CHOOSE i \in DOMAIN room.players : room.players[i].id = id

GetPlayer(room, id) == room.players[IndexOf(room, id)]

\* room.players.set(id, p): replaces in place, or appends a new key
SetPlayer(room, id, p) ==
    IF HasPlayer(room, id)
    THEN [room EXCEPT !.players[IndexOf(room, id)] = p]
    ELSE [room EXCEPT !.players = Append(@, p)]

RemoveAt(seq, k) ==
    [i \in 1..(Len(seq) - 1) |-> IF i < k THEN seq[i] ELSE seq[i + 1]]

\* room.players.delete(id)
DeletePlayer(room, id) ==
    IF HasPlayer(room, id)
    THEN [room EXCEPT !.players = RemoveAt(@, IndexOf(room, id))]
    ELSE room

\* rooms.delete(code)
DeleteRoom(reg, code) ==
    IF code \in Range(reg)
    THEN RemoveAt(reg, CHOOSE i \in DOMAIN reg : reg[i] = code)
    ELSE reg

\* recipients of io.to(code) and of socket.to(code)
IoTo(code) == {c \in Conns : conn[c] = "open" /\ code \in joined[c]}

SocketTo(s, code) == IoTo(code) \ {s}

Ev(ev, to, a, b, c) == [ev |-> ev, to |-> to, a |-> a, b |-> b, c |-> c]

Msg(op, s, code, pid, aux) ==
    [op |-> op, conn |-> s, code |-> code, pid |-> pid, aux |-> aux]

B2N(b) == IF b THEN 1 ELSE 0

\* broadcastGameState(room) with the membership of the channel given
GameStateEv(to, room) ==
    Ev("gameState", to, B2N(room.gameStarted), CountdownStart, 0)

\* survivor evaluation: the players whose isDead is false, in enumeration order
AliveIdx(room) == {i \in DOMAIN room.players : ~room.players[i].isDead}

LastAlive(room) ==
    room.players[CHOOSE i \in AliveIdx(room) : \A j \in AliveIdx(room) : j <= i]

\* --------------------------------------------------------------- Init
Init ==
    /\ conn = [c \in Conns |-> "new"]
    /\ rooms = <<>>
    /\ roomObj = [c \in Codes |-> EmptyRoom]
    /\ players = [c \in Conns |-> NoBinding]
    /\ joined = [c \in Conns |-> {}]
    /\ timers = <<>>
    /\ nextCode = 1
    /\ nextId = 1
    /\ gameOverSent = [c \in Codes |-> FALSE]
    /\ msgs = 0
    /\ last = Msg("init", 0, 0, 0, 0)
    /\ out = <<>>

\* ------------------------------------------------------------ actions
\* a run processes at most MaxMsgs client messages (disconnects included);
\* connections and timer ticks are not counted
Step == msgs < MaxMsgs /\ msgs' = msgs + 1

\* io.on('connection'): sockets connect in the order of their ids
Connect(s) ==
    /\ conn[s] = "new"
    /\ \A c \in Conns : c < s => conn[c] # "new"
    /\ conn' = [conn EXCEPT ![s] = "open"]
    /\ last' = Msg("connection", s, 0, 0, 0)
    /\ out' = <<>>
    /\ UNCHANGED <<rooms, roomObj, players, joined, timers, nextCode, nextId,
                   gameOverSent, msgs>>

\* the body shared by createRoom and the fallback of joinRandomRoom
NewRoom(s, op, reply) ==
    /\ nextCode <= MaxRooms
    /\ nextId <= MaxIds
    /\ roomObj' = [roomObj EXCEPT ![nextCode] =
                     [players |-> <<NewPlayer(nextId, s)>>, gameStarted |-> FALSE]]
    /\ rooms' = Append(rooms, nextCode)
    /\ players' = [players EXCEPT ![s] = [playerId |-> nextId, roomCode |-> nextCode]]
    /\ joined' = [joined EXCEPT ![s] = @ \cup {nextCode}]
    /\ out' = <<Ev(reply, {s}, nextCode, nextId, 0)>>
    /\ last' = Msg(op, s, nextCode, nextId, 0)
    /\ nextCode' = nextCode + 1
    /\ nextId' = nextId + 1
    /\ UNCHANGED <<conn, timers, gameOverSent>>

CreateRoom(s) ==
    /\ Step
    /\ conn[s] = "open"
    /\ NewRoom(s, "createRoom", "roomCreated")

\* function joinRoom(socket, data, roomCode)
JoinRoom(s, op, code) ==
    /\ last' = Msg(op, s, code, 0, 0)
    /\ IF ~HasRoom(code)
       THEN /\ out' = <<Ev("roomNotFound", {s}, 0, 0, 0)>>
            /\ UNCHANGED <<roomObj, players, joined, nextId>>
       ELSE IF Len(roomObj[code].players) >= 2
       THEN /\ out' = <<Ev("roomFull", {s}, 0, 0, 0)>>
            /\ UNCHANGED <<roomObj, players, joined, nextId>>
       ELSE /\ nextId <= MaxIds
            /\ roomObj' = [roomObj EXCEPT ![code] =
                             SetPlayer(@, nextId, NewPlayer(nextId, s))]
            /\ players' = [players EXCEPT ![s] =
                             [playerId |-> nextId, roomCode |-> code]]
            /\ joined' = [joined EXCEPT ![s] = @ \cup {code}]
            /\ out' = <<Ev("roomJoined", {s}, code, nextId, 0)>>
            /\ nextId' = nextId + 1
    /\ UNCHANGED <<conn, rooms, timers, nextCode, gameOverSent>>

\* the scan of joinRandomRoom: rooms with one player and not started
IsOpenRoom(room) == Len(room.players) = 1 /\ ~room.gameStarted

OpenIdx == {i \in DOMAIN rooms : IsOpenRoom(roomObj[rooms[i]])}

\* the last open room of the scan instead of the first
LastOpenRoom == rooms[CHOOSE i \in OpenIdx : \A j \in OpenIdx : j <= i]

FirstOpenRoom == rooms[CHOOSE i \in OpenIdx : \A j \in OpenIdx : i <= j]

JoinRandomRoom(s) ==
    /\ Step
    /\ conn[s] = "open"
    /\ IF OpenIdx # {}
       THEN JoinRoom(s, "joinRandomRoom", FirstOpenRoom)
       ELSE NewRoom(s, "joinRandomRoom", "roomJoined")

JoinRoomMsg(s, code) ==
    /\ Step
    /\ conn[s] = "open"
    /\ JoinRoom(s, "joinRoom", code)

\* the start check of joinGame
ShouldStart(room) == Len(room.players) = 2 /\ ~room.gameStarted

\* startGame(room): the room object after the call; the interval it creates
StartedRoom(room) == [room EXCEPT !.gameStarted = TRUE]

\* NewTimer with the countdown started one too low
NewTimerShort(code) == [code |-> code, countdown |-> CountdownStart - 1]

NewTimer(code) == [code |-> code, countdown |-> CountdownStart]

\* room.players after the "add player if not already there" of joinGame
UpsertPlayer(room, id, s) ==
    IF ~HasPlayer(room, id) THEN SetPlayer(room, id, NewPlayer(id, s)) ELSE room

JoinGame(s, code, pid) ==
    /\ Step
    /\ conn[s] = "open"
    /\ last' = Msg("joinGame", s, code, pid, 0)
    /\ IF ~HasRoom(code)
       THEN /\ out' = <<Ev("error", {s}, 0, 0, 0)>>
            /\ UNCHANGED <<roomObj, players, joined, timers, gameOverSent>>
       ELSE LET r1 == UpsertPlayer(roomObj[code], pid, s)
                j1 == [joined EXCEPT ![s] = @ \cup {code}]
                to == {c \in Conns : conn[c] = "open" /\ code \in j1[c]}
            IN  /\ players' = [players EXCEPT ![s] =
                                 [playerId |-> pid, roomCode |-> code]]
                /\ joined' = j1
                /\ out' = <<GameStateEv(to, r1)>>
                /\ IF ShouldStart(r1)
                   THEN /\ Len(timers) < MaxTimers
                        /\ roomObj' = [roomObj EXCEPT ![code] = StartedRoom(r1)]
                        /\ timers' = Append(timers, NewTimer(code))
                        /\ gameOverSent' = [gameOverSent EXCEPT ![code] = FALSE]
                   ELSE /\ roomObj' = [roomObj EXCEPT ![code] = r1]
                        /\ UNCHANGED <<timers, gameOverSent>>
    /\ UNCHANGED <<conn, rooms, nextCode, nextId>>

\* the "trusted overwrite" of playerState
ReportedPlayer(p, pos, health, isDead) ==
    [p EXCEPT !.pos = pos, !.health = health, !.isDead = isDead]

PlayerState(s, code, pid, pos, health, isDead) ==
    /\ Step
    /\ conn[s] = "open"
    /\ last' = Msg("playerState", s, code, pid, 0)
    /\ IF HasRoom(code) /\ HasPlayer(roomObj[code], pid)
       THEN LET r1 == SetPlayer(roomObj[code], pid,
                        ReportedPlayer(GetPlayer(roomObj[code], pid), pos, health, isDead))
            IN  /\ roomObj' = [roomObj EXCEPT ![code] = r1]
                /\ out' = <<GameStateEv(SocketTo(s, code), r1)>>
       ELSE /\ out' = <<>>
            /\ UNCHANGED roomObj
    /\ UNCHANGED <<conn, rooms, players, joined, timers, nextCode, nextId,
                   gameOverSent>>

SwordSwing(s, code, pid) ==
    /\ Step
    /\ conn[s] = "open"
    /\ last' = Msg("swordSwing", s, code, pid, 0)
    /\ IF HasRoom(code) /\ HasPlayer(roomObj[code], pid)
       THEN /\ roomObj' = [roomObj EXCEPT ![code] =
                SetPlayer(@, pid, [GetPlayer(@, pid) EXCEPT !.sword = "swinging"])]
            /\ out' = <<Ev("swordSwing", SocketTo(s, code), pid, 0, 0)>>
       ELSE /\ out' = <<>>
            /\ UNCHANGED roomObj
    /\ UNCHANGED <<conn, rooms, players, joined, timers, nextCode, nextId,
                   gameOverSent>>

SwordRelease(s, code, pid) ==
    /\ Step
    /\ conn[s] = "open"
    /\ last' = Msg("swordRelease", s, code, pid, 0)
    /\ IF HasRoom(code) /\ HasPlayer(roomObj[code], pid)
       THEN /\ roomObj' = [roomObj EXCEPT ![code] =
                SetPlayer(@, pid, [GetPlayer(@, pid) EXCEPT !.sword = "released"])]
            /\ out' = <<Ev("swordRelease", SocketTo(s, code), pid, 0, 0)>>
       ELSE /\ out' = <<>>
            /\ UNCHANGED roomObj
    /\ UNCHANGED <<conn, rooms, players, joined, timers, nextCode, nextId,
                   gameOverSent>>

\* ----------------------------------------------------- combat adjudication
\* CanHit without the test of the target's death flag
CanHitDeadToo(room, targetId, attackerId) ==
    /\ HasPlayer(room, targetId)
    /\ HasPlayer(room, attackerId)

\* CanHit without the test of the attacker's presence
CanHitNoAttacker(room, targetId, attackerId) ==
    /\ HasPlayer(room, targetId)
    /\ ~GetPlayer(room, targetId).isDead

\* the condition under which playerHit applies damage
CanHit(room, targetId, attackerId) ==
    /\ HasPlayer(room, targetId)
    /\ HasPlayer(room, attackerId)
    /\ ~GetPlayer(room, targetId).isDead

\* the damage applied without the clamp at 0
HitHealthNoClamp(health) == health - Damage

\* Math.max(0, health - 15)
HitHealth(health) == IF health - Damage > 0 THEN health - Damage ELSE 0

\* the target dies with this hit
HitKills(p) == HitHealth(p.health) <= 0 /\ ~p.isDead

\* the target after the damage and the death check
HitPlayer(p) ==
    [p EXCEPT !.health = HitHealth(p.health),
              !.isDead = IF HitKills(p) THEN TRUE ELSE @]

\* alivePlayers === 1 && lastAlivePlayer
OneSurvivor(room) == Cardinality(AliveIdx(room)) = 1

\* GameOverEv with winner and loser exchanged
GameOverEvSwapped(to, room, loserId) ==
    Ev("gameOver", to, loserId, LastAlive(room).id, 0)

\* io.to(roomCode).emit('gameOver', {winnerId, loserId})
GameOverEv(to, room, loserId) == Ev("gameOver", to, LastAlive(room).id, loserId, 0)

PlayerHit(s, code, targetId, attackerId) ==
    /\ Step
    /\ conn[s] = "open"
    /\ last' = Msg("playerHit", s, code, targetId, attackerId)
    /\ IF HasRoom(code) /\ CanHit(roomObj[code], targetId, attackerId)
       THEN LET t  == GetPlayer(roomObj[code], targetId)
                r1 == SetPlayer(roomObj[code], targetId, HitPlayer(t))
                over == HitKills(t) /\ OneSurvivor(r1)
                hit == Ev("playerHit", IoTo(code), targetId, attackerId, Damage)
            IN  IF over
                THEN /\ roomObj' = [roomObj EXCEPT ![code] =
                                      [r1 EXCEPT !.gameStarted = FALSE]]
                     /\ out' = <<GameOverEv(IoTo(code), r1, targetId), hit>>
                     /\ gameOverSent' = [gameOverSent EXCEPT ![code] = TRUE]
                ELSE /\ roomObj' = [roomObj EXCEPT ![code] = r1]
                     /\ out' = <<hit>>
                     /\ UNCHANGED gameOverSent
       ELSE /\ out' = <<>>
            /\ UNCHANGED <<roomObj, gameOverSent>>
    /\ UNCHANGED <<conn, rooms, players, joined, timers, nextCode, nextId>>

PlayerDied(s, code, pid) ==
    /\ Step
    /\ conn[s] = "open"
    /\ last' = Msg("playerDied", s, code, pid, 0)
    /\ IF HasRoom(code) /\ HasPlayer(roomObj[code], pid)
       THEN LET r1 == SetPlayer(roomObj[code], pid,
                        [GetPlayer(roomObj[code], pid) EXCEPT !.isDead = TRUE])
            IN  IF OneSurvivor(r1)
                THEN /\ roomObj' = [roomObj EXCEPT ![code] =
                                      [r1 EXCEPT !.gameStarted = FALSE]]
                     /\ out' = <<GameOverEv(IoTo(code), r1, pid)>>
                     /\ gameOverSent' = [gameOverSent EXCEPT ![code] = TRUE]
                ELSE /\ roomObj' = [roomObj EXCEPT ![code] = r1]
                     /\ out' = <<>>
                     /\ UNCHANGED gameOverSent
       ELSE /\ out' = <<>>
            /\ UNCHANGED <<roomObj, gameOverSent>>
    /\ UNCHANGED <<conn, rooms, players, joined, timers, nextCode, nextId>>

\* Respawned without the health reset
RespawnedFlagOnly(p) == [p EXCEPT !.isDead = FALSE]

\* the player after playerRespawn
Respawned(p) == [p EXCEPT !.health = FullHealth, !.isDead = FALSE]

\* the room object after playerRespawn for a player it holds
RespawnRoom(room, pid) == SetPlayer(room, pid, Respawned(GetPlayer(room, pid)))

PlayerRespawn(s, code, pid) ==
    /\ Step
    /\ conn[s] = "open"
    /\ last' = Msg("playerRespawn", s, code, pid, 0)
    /\ IF HasRoom(code) /\ HasPlayer(roomObj[code], pid)
       THEN /\ roomObj' = [roomObj EXCEPT ![code] = RespawnRoom(@, pid)]
            /\ out' = <<Ev("playerRespawn", SocketTo(s, code), pid, 0, 0)>>
       ELSE /\ out' = <<>>
            /\ UNCHANGED roomObj
    /\ UNCHANGED <<conn, rooms, players, joined, timers, nextCode, nextId,
                   gameOverSent>>

\* ------------------------------------------------------------ disconnect
\* the registry after the "clean up empty rooms" of disconnect
CleanUp(reg, room, code) ==
    IF Len(room.players) = 0 THEN DeleteRoom(reg, code) ELSE reg

Disconnect(s) ==
    /\ Step
    /\ conn[s] = "open"
    /\ conn' = [conn EXCEPT ![s] = "closed"]
    /\ joined' = [joined EXCEPT ![s] = {}]
    /\ last' = Msg("disconnect", s, players[s].roomCode, players[s].playerId, 0)
    /\ IF players[s] # NoBinding /\ HasRoom(players[s].roomCode)
       THEN LET code == players[s].roomCode
                r1 == DeletePlayer(roomObj[code], players[s].playerId)
            IN  /\ roomObj' = [roomObj EXCEPT ![code] = r1]
                /\ out' = <<Ev("playerDisconnected", SocketTo(s, code),
                               players[s].playerId, 0, 0)>>
                /\ rooms' = CleanUp(rooms, r1, code)
       ELSE /\ out' = <<>>
            /\ UNCHANGED <<rooms, roomObj>>
    /\ players' = [players EXCEPT ![s] = NoBinding]
    /\ UNCHANGED <<timers, nextCode, nextId, gameOverSent>>

\* ------------------------------------------------------- countdown timer
\* spawn position of the i-th player enumerated (i from 1)
SpawnPos(i) == <<IF i = 1 THEN SpawnLeftX ELSE SpawnRightX, SpawnY>>

Spawned(room) ==
    [room EXCEPT !.players = [i \in DOMAIN room.players |->
                                [room.players[i] EXCEPT !.pos = SpawnPos(i)]]]

\* intervals of equal period fire in creation order: a later interval never
\* has made more ticks than an earlier one that is still running
MayTick(i) ==
    \A j \in 1..(i - 1) : timers[j].countdown < timers[i].countdown

Tick(i) ==
    /\ i \in DOMAIN timers
    /\ MayTick(i)
    /\ LET t == timers[i]
           cd == Ev("countdown", IoTo(t.code), t.countdown, 0, 0)
       IN  /\ last' = Msg("tick", 0, t.code, 0, t.countdown)
           /\ IF t.countdown = 0
              THEN /\ timers' = RemoveAt(timers, i)
                   /\ roomObj' = [roomObj EXCEPT ![t.code] = Spawned(@)]
                   /\ out' = <<cd, GameStateEv(IoTo(t.code), Spawned(roomObj[t.code]))>>
              ELSE /\ timers' = [timers EXCEPT ![i].countdown = @ - 1]
                   /\ out' = <<cd>>
                   /\ UNCHANGED roomObj
    /\ UNCHANGED <<conn, rooms, players, joined, nextCode, nextId, gameOverSent,
                   msgs>>

\* ------------------------------------------------------------------ Next
\* ids a client can have learnt or made up
KnownIds == 0..(nextId - 1)

\* Room and connection lifecycle: every lobby message with any code and id,
\* disconnects, the countdown, and deaths reported by playerDied.
Next ==
    \/ \E s \in Conns : Connect(s)
    \/ \E s \in Conns : CreateRoom(s)
    \/ \E s \in Conns : JoinRandomRoom(s)
    \/ \E s \in Conns, code \in Codes : JoinRoomMsg(s, code)
    \/ \E s \in Conns, code \in Codes, pid \in KnownIds : JoinGame(s, code, pid)
    \/ \E s \in Conns, code \in Codes, pid \in KnownIds : PlayerDied(s, code, pid)
    \/ \E s \in Conns : Disconnect(s)
    \/ \E i \in 1..MaxTimers : Tick(i)

Spec == Init /\ [][Next]_vars

\* a running interval fires again and again while the process runs
TickAny == \E i \in 1..MaxTimers : Tick(i)

SpecFair == Init /\ [][Next]_vars /\ WF_vars(TickAny)

\* Combat in one room: one room is created, each connection joins by code at
\* most once and sends joinGame for its room or for a code that is not
\* registered, with its own id or the made-up id 0; the gameplay messages come from any connection with any code, any id
\* and any reported values.
CombatNext ==
    \/ \E s \in Conns : Connect(s)
    \/ \E s \in Conns : rooms = <<>> /\ CreateRoom(s)
    \/ \E s \in Conns, code \in Codes :
          players[s] = NoBinding /\ JoinRoomMsg(s, code)
    \/ \E s \in Conns, code \in Codes : \E pid \in {0, players[s].playerId} :
          /\ \/ players[s] # NoBinding /\ code = players[s].roomCode
             \/ ~HasRoom(code)
          /\ JoinGame(s, code, pid)
    \/ \E s \in Conns, code \in Codes, pid \in KnownIds, pos \in ClientPos,
          h \in ClientHealth, d \in BOOLEAN : PlayerState(s, code, pid, pos, h, d)
    \/ \E s \in Conns, code \in Codes, pid \in KnownIds : SwordSwing(s, code, pid)
    \/ \E s \in Conns, code \in Codes, pid \in KnownIds : SwordRelease(s, code, pid)
    \/ \E s \in Conns, code \in Codes, t \in KnownIds, a \in KnownIds :
          PlayerHit(s, code, t, a)
    \/ \E s \in Conns, code \in Codes, pid \in KnownIds : PlayerDied(s, code, pid)
    \/ \E s \in Conns, code \in Codes, pid \in KnownIds : PlayerRespawn(s, code, pid)
    \/ \E i \in 1..MaxTimers : Tick(i)

SpecCombat == Init /\ [][CombatNext]_vars

TypeOK ==
    /\ \A c \in Codes : \A i \in DOMAIN roomObj[c].players :
          roomObj[c].players[i].id \in 0..MaxIds
    /\ Len(timers) <= MaxTimers
    /\ msgs \in 0..MaxMsgs

\* ---------------------------------------------------------------- claims
\* the events of one kind emitted by the last step
Emitted(evs, kind) == {k \in DOMAIN evs : evs[k].ev = kind}

\* C1: every room of the registry holds at most 2 players, whatever lobby
\* messages and disconnects have been processed.
C1_AtMostTwoPlayers ==
    \A k \in DOMAIN rooms : Len(roomObj[rooms[k]].players) <= 2

\* C2: the health of every player of every room is an integer in [0,100].
C2_HealthInRange ==
    \A k \in DOMAIN rooms : \A i \in DOMAIN roomObj[rooms[k]].players :
        roomObj[rooms[k]].players[i].health \in 0..FullHealth

\* C3: a playerHit naming as target a player whose isDead is true changes no
\* room object (health, flags, other players, gameStarted) and emits no event.
C3_HitOnDeadIsNoOp ==
    [][(/\ last'.op = "playerHit"
        /\ HasRoom(last'.code)
        /\ HasPlayer(roomObj[last'.code], last'.pid)
        /\ GetPlayer(roomObj[last'.code], last'.pid).isDead)
       => (roomObj' = roomObj /\ rooms' = rooms /\ out' = <<>>)]_vars

C3_Witness ==
    /\ last.op = "playerHit"
    /\ HasRoom(last.code)
    /\ HasPlayer(roomObj[last.code], last.pid)
    /\ HasPlayer(roomObj[last.code], last.aux)
    /\ last.pid # last.aux
    /\ GetPlayer(roomObj[last.code], last.pid).isDead
    /\ out = <<>>

\* C4: once a gameOver has been emitted for a room, a further death processed
\* in that room (playerDied or a lethal playerHit) emits no second gameOver.
C4_NoSecondGameOver ==
    [][\A c \in Codes :
          (gameOverSent[c] /\ last'.op \in {"playerDied", "playerHit"} /\ last'.code = c)
          => Emitted(out', "gameOver") = {}]_vars

\* C5: every gameOver emitted by playerHit or playerDied names as winnerId the
\* only player of the room whose isDead is false and as loserId the player
\* whose death was just processed, the two differ, and gameStarted is false
\* right after.
C5_GameOverNamesSurvivor ==
    [][\A k \in Emitted(out', "gameOver") :
          LET r == roomObj'[last'.code]
          IN  /\ last'.op \in {"playerDied", "playerHit"}
              /\ {r.players[i].id : i \in AliveIdx(r)} = {out'[k].a}
              /\ out'[k].b = last'.pid
              /\ HasPlayer(r, out'[k].b) /\ GetPlayer(r, out'[k].b).isDead
              /\ out'[k].a # out'[k].b
              /\ ~r.gameStarted]_vars

C5_Witness ==
    /\ last.op = "playerHit"
    /\ Emitted(out, "gameOver") # {}
    /\ Emitted(out, "playerHit") # {}
    /\ timers # <<>>

\* C6: a player whose isDead is true keeps it true across every step other
\* than a playerRespawn for that player.
C6_DeadStaysDead ==
    [][\A c \in Codes : \A id \in 0..MaxIds :
          (/\ HasPlayer(roomObj[c], id) /\ GetPlayer(roomObj[c], id).isDead
           /\ HasPlayer(roomObj'[c], id)
           /\ ~(last'.op = "playerRespawn" /\ last'.code = c /\ last'.pid = id))
          => GetPlayer(roomObj'[c], id).isDead]_vars

\* C7: playerRespawn for a player of an existing room leaves that player with
\* health 100 and isDead false, applying it again changes nothing more, and
\* gameStarted and every other player and room are as before.
C7_RespawnResets ==
    [][(/\ last'.op = "playerRespawn"
        /\ HasRoom(last'.code)
        /\ HasPlayer(roomObj[last'.code], last'.pid))
       => LET c == last'.code
              id == last'.pid
              before == roomObj[c]
              after == roomObj'[c]
          IN  /\ HasPlayer(after, id)
              /\ GetPlayer(after, id).health = FullHealth
              /\ GetPlayer(after, id).isDead = FALSE
              /\ RespawnRoom(after, id) = after
              /\ after.gameStarted = before.gameStarted
              /\ Len(after.players) = Len(before.players)
              /\ \A i \in DOMAIN before.players :
                    before.players[i].id # id => after.players[i] = before.players[i]
              /\ \A d \in Codes \ {c} : roomObj'[d] = roomObj[d]
              /\ rooms' = rooms]_vars

C7_Witness ==
    /\ last.op = "playerRespawn"
    /\ HasRoom(last.code)
    /\ HasPlayer(roomObj[last.code], last.pid)
    /\ gameOverSent[last.code]
    /\ Len(roomObj[last.code].players) >= 2
    /\ AliveIdx(roomObj[last.code]) = DOMAIN roomObj[last.code].players

\* C8: when a connection bound to a player of a registered room disconnects,
\* its binding is removed; a room it was the last player of leaves the
\* registry; a room of two stays with exactly the other player, whose
\* connection receives playerDisconnected with the leaver's id.
C8_DisconnectCleansUp ==
    [][(/\ last'.op = "disconnect"
        /\ players[last'.conn] # NoBinding
        /\ HasRoom(last'.code)
        /\ HasPlayer(roomObj[last'.code], last'.pid))
       => LET c == last'.code
              before == roomObj[c]
              after == roomObj'[c]
          IN  /\ players'[last'.conn] = NoBinding
              /\ Len(before.players) = 1 => c \notin Range(rooms')
              /\ Len(before.players) = 2 =>
                    /\ c \in Range(rooms')
                    /\ Len(after.players) = 1
                    /\ after.players[1].id # last'.pid
                    /\ HasPlayer(before, after.players[1].id)
                    /\ \E k \in Emitted(out', "playerDisconnected") :
                          /\ out'[k].a = last'.pid
                          /\ after.players[1].socketId \in out'[k].to]_vars

\* C9: a join by code that brings a room's membership to 2 starts the room's
\* countdown: gameStarted is set and a timer at 3 is running for the room
\* (which then emits 3, 2, 1, 0 and places the players).
C9_JoinStartsCountdown ==
    [][(/\ last'.op \in {"joinRoom", "joinRandomRoom"}
        /\ HasRoom(last'.code)
        /\ Len(roomObj[last'.code].players) = 1
        /\ Len(roomObj'[last'.code].players) = 2)
       => /\ roomObj'[last'.code].gameStarted
          /\ \E i \in DOMAIN timers' : timers'[i] = NewTimer(last'.code)]_vars

\* C10: no countdown tick happens for a room that is no longer in the
\* registry.
C10_NoTickAfterRemoval ==
    [][last'.op = "tick" => last'.code \in Range(rooms)]_vars

\* C11: every countdown timer starts at 3, each of its ticks emits exactly one
\* countdown event carrying its current value and lowers the value by one, the
\* tick at 0 removes the timer (so it emits 3, 2, 1, 0 and nothing after), and
\* with ticks firing fairly every started timer is eventually removed.
C11_TimerRunsToZeroOnce ==
    /\ [][IF last'.op = "tick"
          THEN \E i \in DOMAIN timers :
                  /\ timers[i].code = last'.code
                  /\ timers[i].countdown \in 0..3
                  /\ Cardinality(Emitted(out', "countdown")) = 1
                  /\ out'[1].ev = "countdown" /\ out'[1].a = timers[i].countdown
                  /\ IF timers[i].countdown = 0
                     THEN timers' = RemoveAt(timers, i)
                     ELSE /\ timers' = [timers EXCEPT ![i].countdown = @ - 1]
                          /\ roomObj' = roomObj
          ELSE /\ Emitted(out', "countdown") = {}
               /\ \/ timers' = timers
                  \/ \E c \in Codes :
                        timers' = Append(timers, [code |-> c, countdown |-> 3])]_vars
    /\ <>[](timers = <<>>)

C11_Witness ==
    /\ last.op = "tick"
    /\ last.aux = 0
    /\ timers = <<>>
    /\ Emitted(out, "countdown") # {}
    /\ \E k \in DOMAIN rooms : Len(roomObj[rooms[k]].players) = 2

\* the message of the last step names a room that is not registered, or a
\* player id (for playerHit: target or attacker) that the named room lacks
NamesUnknown(m) ==
    \/ ~HasRoom(m.code)
    \/ ~HasPlayer(roomObj[m.code], m.pid)
    \/ m.op = "playerHit" /\ ~HasPlayer(roomObj[m.code], m.aux)

\* no room, player, binding, channel or timer state changes in the step
NothingChanges ==
    UNCHANGED <<rooms, roomObj, players, joined, timers, conn, gameOverSent>>

\* C12: a joinGame, playerState, swordSwing, swordRelease, playerHit,
\* playerDied or playerRespawn naming an unregistered room or a player id
\* absent from the named room changes no state and emits no event.
C12_UnknownIsIgnored ==
    [][(/\ last'.op \in {"joinGame", "playerState", "swordSwing", "swordRelease",
                         "playerHit", "playerDied", "playerRespawn"}
        /\ NamesUnknown(last'))
       => (NothingChanges /\ out' = <<>>)]_vars

\* C12 as amended: the six gameplay messages are ignored as stated; joinGame
\* for an unregistered room changes no state but answers the sender with an
\* error event, and joinGame with an id the room lacks adds that player and
\* binds the sender to it.
C12_UnknownIsIgnoredButJoinGame ==
    [][/\ (/\ last'.op \in {"playerState", "swordSwing", "swordRelease",
                            "playerHit", "playerDied", "playerRespawn"}
           /\ NamesUnknown(last'))
          => (NothingChanges /\ out' = <<>>)
       /\ (last'.op = "joinGame" /\ ~HasRoom(last'.code))
          => (NothingChanges /\ out' = <<Ev("error", {last'.conn}, 0, 0, 0)>>)
       /\ (/\ last'.op = "joinGame" /\ HasRoom(last'.code)
           /\ ~HasPlayer(roomObj[last'.code], last'.pid))
          => /\ Len(roomObj'[last'.code].players) = Len(roomObj[last'.code].players) + 1
             /\ HasPlayer(roomObj'[last'.code], last'.pid)
             /\ players'[last'.conn] = [playerId |-> last'.pid, roomCode |-> last'.code]
             /\ rooms' = rooms]_vars

C12_Witness ==
    /\ last.op = "playerHit"
    /\ HasRoom(last.code)
    /\ HasPlayer(roomObj[last.code], last.pid)
    /\ ~HasPlayer(roomObj[last.code], last.aux)
    /\ ~GetPlayer(roomObj[last.code], last.pid).isDead
    /\ GetPlayer(roomObj[last.code], last.pid).health = FullHealth
    /\ Len(roomObj[last.code].players) = 2
    /\ out = <<>>

\* C13: joinRoom is answered roomNotFound for an unregistered code and
\* roomFull for a room of 2 or more, and then registry, player maps and
\* bindings are unchanged; otherwise one player (health 100, alive, at (0,0),
\* created by the sender) is appended to the room under a new id, the sender
\* is bound to it and roomJoined carries the code and the new id.
C13_JoinRoomContract ==
    [][last'.op = "joinRoom" =>
        LET c == last'.code
            s == last'.conn
            before == roomObj[c].players
            after == roomObj'[c].players
        IN  IF ~HasRoom(c)
            THEN /\ out' = <<Ev("roomNotFound", {s}, 0, 0, 0)>>
                 /\ UNCHANGED <<rooms, roomObj, players>>
            ELSE IF Len(before) >= 2
            THEN /\ out' = <<Ev("roomFull", {s}, 0, 0, 0)>>
                 /\ UNCHANGED <<rooms, roomObj, players>>
            ELSE /\ Len(after) = Len(before) + 1
                 /\ \A i \in DOMAIN before : after[i] = before[i]
                 /\ after[Len(after)].id \notin Ids(roomObj[c])
                 /\ after[Len(after)].health = 100
                 /\ after[Len(after)].isDead = FALSE
                 /\ after[Len(after)].pos = <<0, 0>>
                 /\ after[Len(after)].socketId = s
                 /\ players'[s] = [playerId |-> after[Len(after)].id, roomCode |-> c]
                 /\ out' = <<Ev("roomJoined", {s}, c, after[Len(after)].id, 0)>>
                 /\ rooms' = rooms
                 /\ \A d \in Codes \ {c} : roomObj'[d] = roomObj[d]]_vars

C13_Witness ==
    /\ last.op = "joinRoom"
    /\ HasRoom(last.code)
    /\ Len(roomObj[last.code].players) = 2
    /\ Emitted(out, "roomJoined") # {}
    /\ players[last.conn].roomCode = last.code
    /\ roomObj[last.code].players[1].socketId # last.conn

\* C14: a joinRandomRoom processed while some registered room has exactly one
\* player and gameStarted false puts the joiner into the first such room of
\* the registry and creates no room; processed while there is none, it
\* registers exactly one new room whose only player is the joiner.
C14_RandomJoinsFirstOpenRoom ==
    [][last'.op = "joinRandomRoom" =>
        LET open == {i \in DOMAIN rooms :
                        /\ Len(roomObj[rooms[i]].players) = 1
                        /\ ~roomObj[rooms[i]].gameStarted}
            s == last'.conn
        IN  IF open # {}
            THEN \E i \in open :
                    /\ \A j \in open : i <= j
                    /\ rooms' = rooms
                    /\ Len(roomObj'[rooms[i]].players) = 2
                    /\ roomObj'[rooms[i]].players[2].socketId = s
                    /\ players'[s] = [playerId |-> roomObj'[rooms[i]].players[2].id,
                                      roomCode |-> rooms[i]]
                    /\ \A d \in Codes \ {rooms[i]} : roomObj'[d] = roomObj[d]
            ELSE /\ Len(rooms') = Len(rooms) + 1
                 /\ \A k \in DOMAIN rooms : rooms'[k] = rooms[k]
                 /\ rooms'[Len(rooms')] \notin Range(rooms)
                 /\ Len(roomObj'[rooms'[Len(rooms')]].players) = 1
                 /\ roomObj'[rooms'[Len(rooms')]].players[1].socketId = s
                 /\ players'[s] = [playerId |-> roomObj'[rooms'[Len(rooms')]].players[1].id,
                                   roomCode |-> rooms'[Len(rooms')]]
                 /\ \A k \in DOMAIN rooms : roomObj'[rooms[k]] = roomObj[rooms[k]]]_vars

C14_Witness ==
    /\ last.op = "joinRandomRoom"
    /\ Len(rooms) = 2
    /\ last.code = rooms[1]
    /\ Len(roomObj[rooms[1]].players) = 2
    /\ Len(roomObj[rooms[2]].players) = 1
    /\ ~roomObj[rooms[2]].gameStarted
    /\ players[last.conn].roomCode = rooms[1]

\* C15: every player stored in a registered room was created by a connection
\* that is still connected.
C15_NoPlayerOutlivesConnection ==
    \A k \in DOMAIN rooms : \A i \in DOMAIN roomObj[rooms[k]].players :
        conn[roomObj[rooms[k]].players[i].socketId] = "open"

\* C16: a playerHit whose target and attacker are in the room and whose target
\* is not dead sets the target's health to max(0, health - 15), sets its
\* isDead exactly when the new health is 0, and emits playerHit with damage 15
\* to the whole room.
C16_HitAppliesDamage ==
    [][(/\ last'.op = "playerHit"
        /\ HasRoom(last'.code)
        /\ HasPlayer(roomObj[last'.code], last'.pid)
        /\ HasPlayer(roomObj[last'.code], last'.aux)
        /\ ~GetPlayer(roomObj[last'.code], last'.pid).isDead)
       => LET old == GetPlayer(roomObj[last'.code], last'.pid).health
              new == GetPlayer(roomObj'[last'.code], last'.pid)
          IN  /\ new.health = IF old - 15 > 0 THEN old - 15 ELSE 0
              /\ new.isDead <=> new.health = 0
              /\ \E k \in Emitted(out', "playerHit") :
                    /\ out'[k].a = last'.pid
                    /\ out'[k].b = last'.aux
                    /\ out'[k].c = 15
                    /\ out'[k].to = IoTo(last'.code)
              /\ Cardinality(Emitted(out', "playerHit")) = 1]_vars

C16_Witness ==
    /\ last.op = "playerHit"
    /\ HasRoom(last.code)
    /\ HasPlayer(roomObj[last.code], last.pid)
    /\ HasPlayer(roomObj[last.code], last.aux)
    /\ last.pid # last.aux
    /\ GetPlayer(roomObj[last.code], last.pid).health = 0
    /\ GetPlayer(roomObj[last.code], last.pid).isDead
    /\ Emitted(out, "playerHit") # {}

\* C17: a gameOver is emitted only for a room whose gameStarted is true and
\* whose countdown has finished (no timer of the room is still running).
C17_GameOverOnlyWhenActive ==
    [][Emitted(out', "gameOver") # {} =>
          /\ roomObj[last'.code].gameStarted
          /\ \A i \in DOMAIN timers : timers[i].code # last'.code]_vars

\* C18: at most one countdown timer is running for a room at any time.
C18_OneTimerPerRoom ==
    \A c \in Codes : Cardinality({i \in DOMAIN timers : timers[i].code = c}) <= 1

\* C19: a registered room whose gameStarted is true holds exactly two players.
C19_StartedMeansTwoPlayers ==
    \A k \in DOMAIN rooms :
        roomObj[rooms[k]].gameStarted => Len(roomObj[rooms[k]].players) = 2

\* C20: the binding of every live connection names a registered room that
\* holds a player with the bound id.
C20_BindingsAreValid ==
    \A s \in Conns :
        (conn[s] = "open" /\ players[s] # NoBinding)
        => /\ HasRoom(players[s].roomCode)
           /\ HasPlayer(roomObj[players[s].roomCode], players[s].playerId)

====
